---- MODULE Spec2Model ----
(***************************************************************************)
(* The episode stepping protocol of luxai2021/env/lux_env.py:              *)
(* LuxEnvironment / LuxILEnvironment (reset, step, run_no_learn), the      *)
(* opponent scheduler (model_update, switch_opponent_policy), the          *)
(* StackObsWrapper (reset, step) and SaveReplayAndModelCallback._on_step.  *)
(*                                                                         *)
(* The Turn Driver (MatchController.run_to_next_observation) and the       *)
(* observation/reward adapter (learning_agent.get_observation/get_reward)  *)
(* live outside lux_env.py; they are modelled at their interface.          *)
(***************************************************************************)
EXTENDS Integers, Sequences, FiniteSets, TLC

\* ---------------------------------------------------------------- bounds
\* largest cumulative step count explored
MaxTotal == 3
\* largest number of decision points of one episode
MaxDP == 2
\* largest number of direct calls of switch_opponent_policy
MaxSwitch == 1
\* largest version of the learning agent's model
MaxModel == 2
\* largest number of calls of the callback
MaxCalls == 2

\* ------------------------------------------------------------ Python values
\* Python's None in a slot that otherwise holds a string
None == "None"
\* Python's None in a slot that otherwise holds a tuple
NoneObj == << >>

\* random.random() draws p in [0,1); the model carries p * 100
Draws == {0, 30, 40}
\* the cut points 0.3 and 0.4 of switch_opponent_policy, times 100
CutImitation == 30
CutRandom == 40

\* the cadences model_update_step_freq a test configures; 0 models None
Freqs == {0, 1, 2}

PolicyNames == {"self-play", "imitation", "random"}

\* the agent instance a test registers under each policy name
AgentFor(k) == CASE k = "self-play" -> "A" [] k = "imitation" -> "B" [] OTHER -> "C"

\* a dict as a sequence of <<key, value>> pairs in insertion order
keys(d) == {d[i][1] : i \in 1..Len(d)}
getitem(d, k) == IF k \in keys(d) THEN d[CHOOSE i \in 1..Len(d) : d[i][1] = k][2] ELSE "KeyError"
Range(s) == {s[i] : i \in 1..Len(s)}

\* every non-empty registry over PolicyNames, in every insertion order; the
\* order is read only when the initial policy is missing (line 109), which
\* it never is in the registry of all three, taken in one order
Registries ==
  {[i \in 1..Len(s) |-> <<s[i], AgentFor(s[i])>>] :
     s \in {t \in UNION {[1..n -> PolicyNames] : n \in 1..3} :
              /\ Cardinality(Range(t)) = Len(t)
              /\ Len(t) = 3 => t = <<"self-play", "imitation", "random">>}}

\* decision points (unit, city_tile, team, is_new_turn) the Turn Driver can yield
DecisionPoints ==
  { <<"u1", None, "0", TRUE>>, <<None, "c1", "1", FALSE>> }

\* the games a test can configure: the decision points an episode of the
\* game runs through, in order, when no game step fails
Games == UNION {[1..n -> DecisionPoints] : n \in 0..MaxDP}

ActionCodes == {"a0", "a1"}
Outcomes == {"win", "loss", "draw"}

VARIABLES
  cls,                      \* which controller class the instance is; a
                            \* StackObsWrapper wraps a LuxEnvironment
  opponent_agents,          \* self.opponent_agents: the registry
  opponent_policy,          \* self.opponent_policy
  opponent_agent,           \* self.opponent_agent
  mc_agents,                \* self.match_controller.agents
  model_update_step_freq,   \* self.model_update_step_freq (0 models None)
  current_step,             \* self.current_step
  total_env_step,           \* self.total_env_step
  num_switch,               \* self.num_switch
  configs,                  \* self.game.configs: the game every episode plays
  replay_folder,            \* self.replay_folder
  replay_prefix,            \* self.replay_prefix
  match_generator,          \* self.match_generator
  last_observation_object,  \* self.last_observation_object
  agent_type,               \* learning_agent.get_agent_type()
  learning_model,           \* self.learning_agent.model
  opponent_model,           \* the model attribute of every opponent agent
  last_unit_obs,            \* StackObsWrapper's self.last_unit_obs
  learning_agent_last_unit_obs, \* self.learning_agent.last_unit_obs
  n_calls,                  \* the callback's self.n_calls
  save_freq,                \* the callback's self.save_freq
  replay_num_episodes,      \* the callback's self.replay_num_episodes
  replay_env,               \* the callback's self.replay_env: its fields
  ret,                      \* outcome of the last call made on the controller
  handed_out                \* the decision point the caller last got an observation for

vars == << cls, opponent_agents, opponent_policy, opponent_agent, mc_agents,
           model_update_step_freq, current_step, total_env_step, num_switch,
           configs, replay_folder, replay_prefix, match_generator,
           last_observation_object, agent_type, learning_model, opponent_model,
           last_unit_obs, learning_agent_last_unit_obs, n_calls, save_freq,
           replay_num_episodes, replay_env, ret, handed_out >>

\* the state of SaveReplayAndModelCallback and of its replay environment
callback_vars == << n_calls, save_freq, replay_num_episodes, replay_env >>

\* --------------------------------------------------- external collaborators
\* learning_agent.get_observation(game, unit, city_tile, team, is_new_turn)
get_observation(unit, city_tile, team, is_new_turn) ==
  <<"obs", unit, city_tile, team, is_new_turn>>

\* learning_agent.get_last_observation(obs): what the learning agent holds
\* in last_unit_obs afterwards
get_last_observation(obs) == obs

\* the decision point an observation was built for
decision_point_of(obs) == <<obs[2], obs[3], obs[4], obs[5]>>

\* learning_agent.get_reward(game, is_game_over, is_new_turn, is_game_error);
\* outcome is what the game says about who won
get_reward(outcome, is_game_over, is_new_turn, is_game_error) ==
  IF is_game_error THEN "losing_reward"
  ELSE IF is_game_over THEN
         (CASE outcome = "win" -> "win_reward"
            [] outcome = "loss" -> "ordinary_loss_reward"
            [] OTHER -> "draw_reward")
  ELSE IF is_new_turn THEN "turn_reward" ELSE "decision_reward"

\* match_controller.run_to_next_observation(): a fresh resumable sequence
run_to_next_observation == [started |-> TRUE, pos |-> 0, finished |-> FALSE]
NoGenerator == [started |-> FALSE, pos |-> 0, finished |-> FALSE]

\* next(gen): one resume of the Turn Driver. A finished generator (exhausted,
\* or one that raised) raises StopIteration on every later resume.
\* game: the decision points of the game; fails: the game step fails
\* during this resume.
generator_next(gen, game, fails) ==
  IF gen.finished THEN [gen |-> gen, signal |-> "StopIteration", dp |-> NoneObj]
  ELSE IF fails THEN
    [gen |-> [gen EXCEPT !.finished = TRUE],
     signal |-> "GameStepFailedException", dp |-> NoneObj]
  ELSE IF gen.pos < Len(game) THEN
    [gen |-> [gen EXCEPT !.pos = @ + 1], signal |-> "yield", dp |-> game[gen.pos + 1]]
  ELSE [gen |-> [gen EXCEPT !.finished = TRUE], signal |-> "StopIteration", dp |-> NoneObj]

\* ------------------------------------------------------------ call records
Call(fn, args, out) == [fn |-> fn, args |-> args, out |-> out]
Returns(op, value, calls) ==
  [op |-> op, kind |-> "return", exc |-> None, value |-> value, calls |-> calls]
Raises(op, exc, calls) ==
  [op |-> op, kind |-> "raise", exc |-> exc, value |-> << >>, calls |-> calls]

\* ------------------------------------------------------------------ models
\* A model object: id tells objects apart, v is the content (its weights).
NoModel == [id |-> None, v |-> 0]
LearnerModels == {[id |-> "learner", v |-> n] : n \in 1..MaxModel}
\* copy.deepcopy(model): a new object with the same content
deepcopy(m) == [id |-> "copy", v |-> m.v]

AgentTypes == {"AGENT", "LEARNING"}
OpponentObjects == {"A", "B", "C", "IL"}

\* ------------------------------------------------------- opponent scheduler
\* the slip of handing the opponent the learning agent's model itself
model_update_by_reference(lm, agent, models) ==
  IF lm # NoModel THEN [models EXCEPT ![agent] = lm] ELSE models

\* LuxEnvironment.model_update: the models of the opponents afterwards
model_update(lm, agent, models) ==
  IF lm # NoModel THEN [models EXCEPT ![agent] = deepcopy(lm)] ELSE models

\* the if / elif chain of switch_opponent_policy; no branch taken leaves
\* new_opponent_policy unbound
new_opponent_policy(p, d) ==
  IF p < CutImitation /\ "imitation" \in keys(d) THEN "imitation"
  ELSE IF CutImitation <= p /\ p < CutRandom /\ "random" \in keys(d) THEN "random"
  ELSE IF CutRandom <= p /\ "self-play" \in keys(d) THEN "self-play"
  ELSE "unbound"

\* the slip of picking the drawn policy without looking it up in the registry
switch_unregistered_policy(p, d, policy, agent, n) ==
  LET new == IF p < CutImitation THEN "imitation"
             ELSE IF p < CutRandom THEN "random" ELSE "self-play"
  IN IF policy # new
       THEN [exc |-> None, opponent_policy |-> new,
             opponent_agent |-> AgentFor(new), num_switch |-> n + 1]
       ELSE [exc |-> None, opponent_policy |-> policy,
             opponent_agent |-> agent, num_switch |-> n + 1]

\* LuxEnvironment.switch_opponent_policy with draw p: the exception raised
\* (None when it completes) and the fields it leaves behind
switch_opponent_policy(p, d, policy, agent, n) ==
  LET new == new_opponent_policy(p, d) IN
  IF new = "unbound"
    THEN [exc |-> "UnboundLocalError", opponent_policy |-> policy,
          opponent_agent |-> agent, num_switch |-> n + 1]
  ELSE IF policy # new
    THEN [exc |-> None, opponent_policy |-> new,
          opponent_agent |-> getitem(d, new), num_switch |-> n + 1]
  ELSE [exc |-> None, opponent_policy |-> policy,
        opponent_agent |-> agent, num_switch |-> n + 1]

\* ----------------------------------------------------------- construction
\* LuxEnvironment.__init__: the initial active policy
initial_policy(initial_opponent_policy, d) ==
  IF initial_opponent_policy \in keys(d) THEN initial_opponent_policy ELSE d[1][1]

\* the cadences save_freq and the numbers of replay episodes a test configures
SaveFreqs == {1, 2}
ReplayNums == {1, 3}
\* game.configs of the replay environment before any seed is written to it
NoSeed == -1
\* the callback's save_path and name_prefix
save_path == "models"
name_prefix == "rl_model"

\* SaveReplayAndModelCallback.__init__ around a replay environment that was
\* never reset
SaveReplayAndModelCallback_init ==
  /\ n_calls = 0
  /\ save_freq \in SaveFreqs
  /\ replay_num_episodes \in ReplayNums
  /\ replay_env = [seed |-> NoSeed, replay_folder |-> None,
                   replay_prefix |-> <<"replay">>, current_step |-> 0,
                   match_generator |-> NoGenerator,
                   last_observation_object |-> NoneObj]

InitCommon ==
  /\ current_step = 0
  /\ total_env_step = 0
  /\ num_switch = 0
  /\ configs \in Games
  /\ replay_folder \in {None, "replays"}
  /\ replay_prefix = "replay"
  /\ match_generator = NoGenerator
  /\ last_observation_object = NoneObj
  /\ agent_type \in AgentTypes
  /\ learning_model \in {NoModel, [id |-> "learner", v |-> 1]}
  /\ opponent_model = [a \in OpponentObjects |-> NoModel]
  /\ last_unit_obs = NoneObj
  /\ learning_agent_last_unit_obs = NoneObj
  /\ ret = Returns("__init__", << >>, << >>)
  /\ handed_out = NoneObj
  /\ SaveReplayAndModelCallback_init

\* the classes whose step runs the opponent scheduler
Scheduled == {"LuxEnvironment", "StackObsWrapper"}
\* the class whose reset and step pass the rolling last observation on
Stacked == "StackObsWrapper"

\* LuxEnvironment.__init__, and StackObsWrapper.__init__ around it
LuxEnvironment_init ==
  /\ cls \in Scheduled
  /\ \E d \in Registries, initial_opponent_policy \in PolicyNames :
       /\ opponent_agents = d
       /\ opponent_policy = initial_policy(initial_opponent_policy, d)
       /\ opponent_agent = getitem(d, opponent_policy)
  /\ mc_agents = <<"learner", opponent_agent>>
  /\ model_update_step_freq \in Freqs
  /\ InitCommon

LuxILEnvironment_init ==
  /\ cls = "LuxILEnvironment"
  /\ opponent_agents = << >>
  /\ opponent_policy = None
  /\ opponent_agent = "IL"
  /\ mc_agents = <<"learner", opponent_agent>>
  /\ model_update_step_freq = 0
  /\ InitCommon

Init == LuxEnvironment_init \/ LuxILEnvironment_init

\* ------------------------------------------------------------------ reset
\* the slip of setting the cache only when none is held yet
reset_keeps_last_observation_object(lo, r) ==
  IF lo # NoneObj THEN lo ELSE IF r.signal = "yield" THEN r.dp ELSE NoneObj

\* what reset leaves in last_observation_object: None (line 207) unless the
\* first resume yields a decision point (line 219)
reset_last_observation_object(lo, r) ==
  IF r.signal = "yield" THEN r.dp ELSE NoneObj

\* the slip of catching the first resume's signal the way step does
reset_catches_signal(r, calls, prior) ==
  IF r.signal = "yield"
    THEN LET obs == get_observation(r.dp[1], r.dp[2], r.dp[3], r.dp[4]) IN
         Returns("reset", <<obs>>,
                 Append(calls, Call("get_observation", r.dp \o prior, obs)))
    ELSE Returns("reset", <<NoneObj>>, calls)

\* how reset ends after the first resume r of the Turn Driver (lines 214-221):
\* it returns the observation of the decision point yielded; there is no
\* try around next(), so any other signal leaves reset as an exception.
\* prior: the arguments get_observation is given after the decision point
reset_outcome(r, calls, prior) ==
  IF r.signal = "yield"
    THEN LET obs == get_observation(r.dp[1], r.dp[2], r.dp[3], r.dp[4]) IN
         Returns("reset", <<obs>>,
                 Append(calls, Call("get_observation", r.dp \o prior, obs)))
    ELSE Raises("reset", r.signal, calls)

\* what StackObsWrapper.reset leaves in self.last_unit_obs (line 346): the
\* value the learning agent holds
reset_last_unit_obs(lu, agent_lu) == agent_lu

\* LuxEnvironment.reset / LuxILEnvironment.reset; match_controller.reset()
\* sets the game of configs up again.
reset(fails) ==
  LET r == generator_next(run_to_next_observation, configs, fails)
      calls0 == << Call("match_controller.reset", << >>, << >>) >>
      calls1 == IF replay_folder # None
                  THEN Append(calls0, Call("start_replay_logging",
                                           <<replay_folder, replay_prefix>>, << >>))
                  ELSE calls0
      calls == calls1 \o << Call("run_to_next_observation", << >>, << >>),
                            Call("next", << >>, <<r.signal, r.dp>>) >>
  IN
  /\ UNCHANGED callback_vars
  /\ current_step' = 0
  /\ match_generator' = r.gen
  /\ last_observation_object' = reset_last_observation_object(last_observation_object, r)
  /\ last_unit_obs' = IF cls = Stacked
                        THEN reset_last_unit_obs(last_unit_obs, learning_agent_last_unit_obs)
                        ELSE last_unit_obs
  /\ ret' = reset_outcome(r, calls, IF cls = Stacked THEN <<last_unit_obs'>> ELSE << >>)
  /\ handed_out' = IF ret'.kind = "return" /\ ret'.value[1] # NoneObj
                     THEN decision_point_of(ret'.value[1]) ELSE NoneObj
  /\ UNCHANGED << cls, opponent_agents, opponent_policy, opponent_agent, mc_agents,
                  model_update_step_freq, total_env_step, num_switch, configs, replay_folder, replay_prefix,
                  agent_type, learning_model, opponent_model,
                  learning_agent_last_unit_obs >>

\* ------------------------------------------------------------------- step
\* the try / except of step and the reward that follows it: what the resume
\* r of the Turn Driver makes of obs, reward and the three flags
step_outcome(r, outcome) ==
  LET yielded == r.signal = "yield"
      is_new_turn == IF yielded THEN r.dp[4] ELSE TRUE
      is_game_over == r.signal \in {"StopIteration", "GameStepFailedException"}
      is_game_error == r.signal = "GameStepFailedException"
  IN [obs |-> IF yielded THEN get_observation(r.dp[1], r.dp[2], r.dp[3], r.dp[4])
              ELSE NoneObj,
      is_new_turn |-> is_new_turn,
      is_game_over |-> is_game_over,
      is_game_error |-> is_game_error,
      reward |-> get_reward(outcome, is_game_over, is_new_turn, is_game_error)]

\* the slip of counting in the episode only the steps that reach a decision point
count_step_to_decision_point(cs, total, r) ==
  [current_step |-> IF r.signal = "yield" THEN cs + 1 ELSE cs,
   total_env_step |-> total + 1]

\* the two counters once step has advanced them (lines 164-165), which it
\* does before the Turn Driver is resumed, whatever the resume r brings
count_step(cs, total, r) ==
  [current_step |-> cs + 1, total_env_step |-> total + 1]

\* the slip of not refreshing the cache in step
step_stale_last_observation_object(lo, r) == lo

\* what step leaves in last_observation_object: the decision point the
\* resume yields (line 176), the old one when the resume raises
step_last_observation_object(lo, r) ==
  IF r.signal = "yield" THEN r.dp ELSE lo

\* the actor and team step hands to take_action: those of the cached
\* decision point
take_action_target(lo) == <<lo[1], lo[2], lo[3]>>

\* whether step's cadence test is true once the counters are advanced
cadence_due(freq, total) == freq # 0 /\ total % freq = 0

\* the record of one switch_opponent_policy call: the draw and the active
\* policy and agent before it, the exception and the active ones after it
SwitchCall(p, policy, agent, sw) ==
  Call("switch_opponent_policy", <<p, policy, agent>>,
       <<sw.exc, sw.opponent_policy, sw.opponent_agent>>)

\* a fault of the adapter other than the Turn Driver's two signals
AdapterFault == "ValueError"
\* the adapter call that raises AdapterFault during a step, None for neither
AdapterCalls == {"get_observation", "get_reward"}
\* what a call that raised leaves in its call record
Raised(exc) == <<"raise", exc>>

\* what the try statement of step ends with (lines 171-176): "yield" when its
\* body ran to the end, else the exception raised in it, by next() or by
\* get_observation
try_signal(r, fault) ==
  IF r.signal = "yield" /\ fault = "get_observation" THEN AdapterFault ELSE r.signal

\* the slip of catching every exception where step failure is caught
except_any_exception(signal) ==
  IF signal \in {"yield", "StopIteration"} THEN signal ELSE "GameStepFailedException"

\* the except clauses of step (lines 177-185): the two signals are handled,
\* anything else raised in the try leaves step
except_clauses(signal) ==
  IF signal \in {"yield", "StopIteration", "GameStepFailedException"}
    THEN signal ELSE "propagate"

\* LuxEnvironment.step / LuxILEnvironment.step.
\* fails: a game step fails when the Turn Driver is resumed; outcome: what the
\* game says about who won; p: the draw of random.random() should a switch be
\* due; fault: the adapter call that raises AdapterFault, None for neither.
step(action_code, fails, outcome, p, fault) ==
  /\ UNCHANGED callback_vars
  /\ total_env_step < MaxTotal
  /\ IF last_observation_object = NoneObj
       THEN \* None[0]: TypeError before anything is done
            /\ ret' = Raises("step", "TypeError", << >>)
            /\ UNCHANGED << current_step, total_env_step, match_generator,
                            last_observation_object, opponent_policy, opponent_agent,
                            num_switch, opponent_model, last_unit_obs,
                            learning_agent_last_unit_obs >>
       ELSE
         LET lo == last_observation_object
             target == take_action_target(lo)
             r == generator_next(match_generator, configs, fails)
             counted == count_step(current_step, total_env_step, r)
             total == counted.total_env_step
             signal == try_signal(r, fault)
             handled == except_clauses(signal)
             calls1 == << Call("take_action",
                               <<action_code, target[1], target[2], target[3]>>, << >>),
                          Call("next", << >>, <<r.signal, r.dp>>) >>
             \* StackObsWrapper.step, lines 312-313: the rolling value is
             \* fetched from the learning agent and passed to get_observation
             stacked == cls = Stacked /\ r.signal = "yield"
             obs_args == IF stacked THEN Append(r.dp, learning_agent_last_unit_obs)
                         ELSE r.dp
         IN
         /\ last_unit_obs' = IF stacked THEN learning_agent_last_unit_obs
                             ELSE last_unit_obs
         /\ current_step' = counted.current_step
         /\ total_env_step' = total
         /\ match_generator' = r.gen
         /\ IF handled = "propagate"
              THEN \* get_observation raised: line 176 and all after it are skipped
                   /\ ret' = Raises("step", signal,
                                    Append(calls1, Call("get_observation", obs_args,
                                                        Raised(signal))))
                   /\ UNCHANGED << last_observation_object, opponent_policy,
                                   opponent_agent, num_switch, opponent_model,
                                   learning_agent_last_unit_obs >>
              ELSE
                LET seen == [r EXCEPT !.signal = handled]
                    o == step_outcome(seen, outcome)
                    calls2a == IF r.signal = "yield"
                                 THEN Append(calls1, Call("get_observation", obs_args,
                                                          IF handled = "yield" THEN o.obs
                                                          ELSE Raised(signal)))
                                 ELSE calls1
                    \* StackObsWrapper.step, line 314: the learning agent
                    \* keeps the observation just built
                    kept == stacked /\ handled = "yield"
                    calls2 == IF kept
                                THEN Append(calls2a, Call("get_last_observation",
                                                          <<o.obs>>, << >>))
                                ELSE calls2a
                    reward_args == <<o.is_game_over, o.is_new_turn, o.is_game_error>>
                    calls3 == Append(calls2, Call("get_reward", reward_args, <<o.reward>>))
                    due == cls \in Scheduled
                           /\ cadence_due(model_update_step_freq, total)
                    refresh == due /\ opponent_policy = "self-play"
                    models == IF refresh
                                THEN model_update(learning_model, opponent_agent,
                                                  opponent_model)
                                ELSE opponent_model
                    calls4 == IF refresh
                                THEN Append(calls3, Call("model_update", <<opponent_agent>>,
                                                         <<models[opponent_agent].v>>))
                                ELSE calls3
                    sw == switch_opponent_policy(p, opponent_agents, opponent_policy,
                                                 opponent_agent, num_switch)
                    calls5 == IF due
                                THEN Append(calls4, SwitchCall(p, opponent_policy,
                                                               opponent_agent, sw))
                                ELSE calls4
                IN
                /\ last_observation_object' = step_last_observation_object(lo, seen)
                /\ learning_agent_last_unit_obs' =
                     IF kept THEN get_last_observation(o.obs)
                     ELSE learning_agent_last_unit_obs
                /\ IF fault = "get_reward"
                     THEN \* get_reward raised: the scheduler is not reached
                          /\ ret' = Raises("step", AdapterFault,
                                           Append(calls2, Call("get_reward", reward_args,
                                                               Raised(AdapterFault))))
                          /\ UNCHANGED << opponent_policy, opponent_agent, num_switch,
                                          opponent_model >>
                   ELSE IF due
                     THEN /\ opponent_model' = models
                          /\ opponent_policy' = sw.opponent_policy
                          /\ opponent_agent' = sw.opponent_agent
                          /\ num_switch' = sw.num_switch
                          /\ ret' = IF sw.exc # None
                                      THEN Raises("step", sw.exc, calls5)
                                      ELSE Returns("step",
                                                   <<o.obs, o.reward, o.is_game_over>>,
                                                   calls5)
                   ELSE /\ UNCHANGED << opponent_policy, opponent_agent, num_switch,
                                        opponent_model >>
                        /\ ret' = Returns("step", <<o.obs, o.reward, o.is_game_over>>,
                                          calls5)
  /\ handed_out' = IF ret'.kind = "return" /\ ret'.value[1] # NoneObj
                     THEN decision_point_of(ret'.value[1]) ELSE NoneObj
  /\ UNCHANGED << cls, opponent_agents, mc_agents, model_update_step_freq, configs, replay_folder, replay_prefix,
                  agent_type, learning_model >>

\* ------------------------------------------------------------ run_no_learn
\* the slip of taking every seated agent for an inference-mode one
get_agent_type_unchecked(agent, learner_type) == "AGENT"

\* the type get_agent_type() answers for an agent seated in the match controller
get_agent_type(agent, learner_type) == IF agent = "learner" THEN learner_type ELSE "AGENT"

\* LuxEnvironment.run_no_learn / LuxILEnvironment.run_no_learn
run_no_learn(fails) ==
  /\ UNCHANGED callback_vars
  /\ IF \E i \in 1..Len(mc_agents) : get_agent_type(mc_agents[i], agent_type) # "AGENT"
       THEN /\ ret' = Raises("run_no_learn", "AssertionError", << >>)
            /\ UNCHANGED << current_step, match_generator, last_observation_object >>
       ELSE
         LET r == generator_next(run_to_next_observation, configs, fails)
             calls == << Call("match_controller.reset", << >>, << >>),
                         Call("run_to_next_observation", << >>, << >>),
                         Call("next", << >>, <<r.signal, r.dp>>) >>
         IN
         /\ current_step' = 0
         /\ last_observation_object' = NoneObj
         /\ match_generator' = r.gen
         /\ ret' = CASE r.signal = "StopIteration" ->
                          Returns("run_no_learn", <<FALSE>>, calls)
                     [] r.signal = "GameStepFailedException" ->
                          Returns("run_no_learn", <<TRUE>>, calls)
                     [] OTHER -> \* is_game_error was never assigned
                          Raises("run_no_learn", "UnboundLocalError", calls)
  /\ handed_out' = NoneObj
  /\ UNCHANGED << cls, opponent_agents, opponent_policy, opponent_agent, mc_agents,
                  model_update_step_freq, total_env_step, num_switch, configs, replay_folder, replay_prefix,
                  agent_type, learning_model, opponent_model,
                  last_unit_obs, learning_agent_last_unit_obs >>

\* ------------------------------------------- the scheduler called directly
call_switch_opponent_policy(p) ==
  /\ UNCHANGED callback_vars
  /\ cls \in Scheduled
  /\ num_switch < MaxSwitch
  /\ LET sw == switch_opponent_policy(p, opponent_agents, opponent_policy,
                                      opponent_agent, num_switch)
         calls == << SwitchCall(p, opponent_policy, opponent_agent, sw) >>
     IN /\ opponent_policy' = sw.opponent_policy
        /\ opponent_agent' = sw.opponent_agent
        /\ num_switch' = sw.num_switch
        /\ ret' = IF sw.exc # None
                    THEN Raises("switch_opponent_policy", sw.exc, calls)
                    ELSE Returns("switch_opponent_policy", << >>, calls)
  /\ UNCHANGED << cls, opponent_agents, mc_agents, model_update_step_freq, current_step,
                  total_env_step, configs, replay_folder, replay_prefix, match_generator, last_observation_object,
                  agent_type, learning_model, opponent_model, last_unit_obs,
                  learning_agent_last_unit_obs, handed_out >>

call_model_update ==
  /\ UNCHANGED callback_vars
  /\ cls \in Scheduled
  /\ opponent_model' = model_update(learning_model, opponent_agent, opponent_model)
  /\ ret' = Returns("model_update", << >>,
                    << Call("model_update", <<opponent_agent>>,
                            <<opponent_model'[opponent_agent].v>>) >>)
  /\ UNCHANGED << cls, opponent_agents, opponent_policy, opponent_agent, mc_agents,
                  model_update_step_freq, current_step, total_env_step, num_switch,
                  configs, replay_folder, replay_prefix, match_generator, last_observation_object, agent_type,
                  learning_model, last_unit_obs, learning_agent_last_unit_obs,
                  handed_out >>

\* ------------------------------------------------------------ the trainer
\* one gradient update of the trainer: the learning agent's model object
\* changes in place, and so does every reference to that same object
train ==
  /\ UNCHANGED callback_vars
  /\ learning_model # NoModel
  /\ learning_model.v < MaxModel
  /\ learning_model' = [learning_model EXCEPT !.v = @ + 1]
  /\ opponent_model' = [a \in OpponentObjects |->
                          IF opponent_model[a].id = "learner"
                            THEN learning_model' ELSE opponent_model[a]]
  /\ UNCHANGED << cls, opponent_agents, opponent_policy, opponent_agent, mc_agents,
                  model_update_step_freq, current_step, total_env_step, num_switch,
                  configs, replay_folder, replay_prefix, match_generator, last_observation_object, agent_type,
                  last_unit_obs, learning_agent_last_unit_obs, ret, handed_out >>

\* ------------------------------------------------------------- the sidecar
\* how the first resume of the Turn Driver ends in an episode of the replay
\* environment: a decision point is yielded (an agent in learning mode is
\* seated), the game runs to its end, a game step fails, or something else
\* is raised
ReplaySignals == {"yield", "StopIteration", "GameStepFailedException", AdapterFault}

\* LuxEnvironment.set_replay_path on the replay environment
set_replay_path(env, folder, prefix) ==
  [env EXCEPT !.replay_prefix = prefix, !.replay_folder = folder]

\* LuxEnvironment.reset on the replay environment, whose Turn Driver ends its
\* first resume with signal: the fields it leaves and the exception that
\* leaves it (None when it returns the observation)
replay_env_reset(env, signal) ==
  LET r == IF signal = "yield"
             THEN [gen |-> [run_to_next_observation EXCEPT !.pos = 1],
                   signal |-> signal, dp |-> CHOOSE dp \in DecisionPoints : TRUE]
             ELSE [gen |-> [run_to_next_observation EXCEPT !.finished = TRUE],
                   signal |-> signal, dp |-> NoneObj]
  IN [env |-> [env EXCEPT !.current_step = 0,
                          !.match_generator = r.gen,
                          !.last_observation_object =
                             reset_last_observation_object(@, r)],
      exc |-> IF signal = "yield" THEN None ELSE signal]

\* the slip of catching the Turn Driver's two signals only
on_step_except_signals(exc) ==
  IF exc = "StopIteration" THEN "pass"
  ELSE IF exc = "GameStepFailedException" THEN "logged" ELSE "propagate"

\* the except clauses of _on_step (lines 62-70): StopIteration is passed
\* over, every other Exception is printed and passed over
on_step_except(exc) ==
  IF exc = "StopIteration" THEN "pass" ELSE "logged"

\* the for loop of _on_step from episode i on (lines 56-70); signals[i + 1]
\* is how episode i of the replay environment ends. Gives the replay
\* environment and the calls made when the loop is left, and the exception
\* that left it (None when it ran to its end).
RECURSIVE replay_episodes(_, _, _, _, _)
replay_episodes(i, env, calls, signals, num_timesteps) ==
  IF i >= Len(signals) THEN [env |-> env, calls |-> calls, exc |-> None]
  ELSE
    LET seeded == [env EXCEPT !.seed = i]
        prefix == <<name_prefix, num_timesteps, i>>
        pathed == set_replay_path(seeded, save_path, prefix)
        res == replay_env_reset(pathed, signals[i + 1])
        calls1 == calls \o
                    << Call("set_replay_path", <<save_path, prefix>>, << >>),
                       Call("replay_env.reset", <<pathed.seed>>, <<signals[i + 1]>>) >>
    IN IF res.exc # None /\ on_step_except(res.exc) = "propagate"
         THEN [env |-> res.env, calls |-> calls1, exc |-> res.exc]
         ELSE replay_episodes(i + 1, res.env, calls1, signals, num_timesteps)

\* BaseCallback.on_step counts the call, then SaveReplayAndModelCallback._on_step
\* runs; with one training environment num_timesteps is n_calls.
\* signals: how each episode of the replay environment ends.
on_step(signals) ==
  /\ n_calls < MaxCalls
  /\ n_calls' = n_calls + 1
  /\ IF n_calls' % save_freq = 0
       THEN LET path == <<save_path, name_prefix, n_calls'>>
                res == replay_episodes(0, replay_env,
                                       << Call("model.save", path, << >>) >>,
                                       signals, n_calls')
            IN /\ replay_env' = res.env
               /\ ret' = IF res.exc # None
                           THEN Raises("_on_step", res.exc, res.calls)
                           ELSE Returns("_on_step", <<TRUE>>, res.calls)
       ELSE /\ replay_env' = replay_env
            /\ ret' = Returns("_on_step", <<TRUE>>, << >>)
  /\ UNCHANGED << cls, opponent_agents, opponent_policy, opponent_agent, mc_agents,
                  model_update_step_freq, current_step, total_env_step, num_switch,
                  configs, replay_folder, replay_prefix, match_generator,
                  last_observation_object, agent_type, learning_model, opponent_model,
                  last_unit_obs, learning_agent_last_unit_obs, save_freq,
                  replay_num_episodes, handed_out >>

\* ---------------------------------------------------------- specification
\* an input is enumerated only where the handler reads it
OneOf(S) == {CHOOSE x \in S : TRUE}
Reset == \E fails \in BOOLEAN : reset(fails)
Step ==
  \E a \in ActionCodes, fails \in BOOLEAN :
    \E outcome \in IF generator_next(match_generator, configs, fails).signal = "StopIteration"
                     THEN Outcomes ELSE OneOf(Outcomes) :
      \E p \in IF cls \in Scheduled
                    /\ cadence_due(model_update_step_freq, total_env_step + 1)
                 THEN Draws ELSE OneOf(Draws) :
        step(a, fails, outcome, p, None)
\* a step during which the named call of the adapter raises AdapterFault
StepAdapterFault ==
  \E a \in ActionCodes, fails \in BOOLEAN, fault \in AdapterCalls :
    /\ last_observation_object # NoneObj
    /\ fault = "get_observation" =>
         generator_next(match_generator, configs, fails).signal = "yield"
    /\ step(a, fails, CHOOSE o \in Outcomes : TRUE, CHOOSE p \in Draws : TRUE, fault)
OnStep ==
  \E signals \in IF (n_calls + 1) % save_freq = 0
                   THEN [1..replay_num_episodes -> ReplaySignals]
                   ELSE OneOf([1..replay_num_episodes -> ReplaySignals]) :
    on_step(signals)
RunNoLearn == \E fails \in BOOLEAN : run_no_learn(fails)
SwitchOpponentPolicy == \E p \in Draws : call_switch_opponent_policy(p)
ModelUpdate == call_model_update
Train == train

Next ==
  \/ Reset \/ Step \/ StepAdapterFault \/ RunNoLearn
  \/ SwitchOpponentPolicy \/ ModelUpdate \/ Train \/ OnStep

Spec == Init /\ [][Next]_vars

\* ------------------------------------------------------------------ slices
\* the configuration of the callback in the slices that never call it
CallbackIdle == save_freq = 1 /\ replay_num_episodes = 1

\* The episode protocol on its own: the game, the class, the cadence, the
\* replay folder and the agent type vary; the registry is {"self-play": A, "imitation": B} with
\* "self-play" active and the learning agent holds a model. The callers are
\* reset, step and run_no_learn: the direct scheduler calls and the trainer
\* write only opponent_policy, opponent_agent, num_switch and the models,
\* none of which the episode bookkeeping reads.
InitEpisode ==
  /\ Init
  /\ CallbackIdle
  /\ cls # Stacked
  /\ cls = "LuxEnvironment" =>
        /\ opponent_agents = << <<"self-play", "A">>, <<"imitation", "B">> >>
        /\ opponent_policy = "self-play"
  /\ learning_model # NoModel
NextEpisode == Reset \/ Step \/ RunNoLearn
SpecEpisode == InitEpisode /\ [][NextEpisode]_vars

\* Policy switching on its own: every registry, initial policy and cadence
\* vary; the game has one decision point, no replay is logged, the learning
\* agent is in learning mode and holds a model.
InitSwitch ==
  /\ Init
  /\ CallbackIdle
  /\ cls = "LuxEnvironment"
  /\ agent_type = "LEARNING"
  /\ learning_model # NoModel
  /\ configs = << <<"u1", None, "0", TRUE>> >>
  /\ replay_folder = None
NextSwitch == Reset \/ Step \/ SwitchOpponentPolicy
SpecSwitch == InitSwitch /\ [][NextSwitch]_vars

\* The adapter failing during a step: the episode protocol with the calls
\* reset and step, get_observation or get_reward raising AdapterFault on
\* some steps; no replay is logged and the learning agent is in learning mode.
InitFault ==
  /\ InitEpisode
  /\ agent_type = "LEARNING"
  /\ replay_folder = None
NextFault == Reset \/ Step \/ StepAdapterFault
SpecFault == InitFault /\ [][NextFault]_vars

\* The history-aware controller: a StackObsWrapper around a LuxEnvironment
\* with the registry {"self-play": A, "imitation": B}, "self-play" active;
\* the game and the cadence vary, no replay is logged. The callers are reset
\* and step.
InitStack ==
  /\ Init
  /\ CallbackIdle
  /\ cls = Stacked
  /\ opponent_agents = << <<"self-play", "A">>, <<"imitation", "B">> >>
  /\ opponent_policy = "self-play"
  /\ agent_type = "LEARNING"
  /\ learning_model # NoModel
  /\ replay_folder = None
NextStack == Reset \/ Step
SpecStack == InitStack /\ [][NextStack]_vars

\* The sidecar beside a training run: the trainer resets and steps a
\* LuxILEnvironment whose game has one decision point, and calls the
\* callback; the cadence, the number of replay episodes and the way each
\* replay episode ends vary.
InitSidecar ==
  /\ Init
  /\ cls = "LuxILEnvironment"
  /\ Len(configs) = 1
  /\ agent_type = "LEARNING"
  /\ learning_model # NoModel
  /\ replay_folder = None
NextSidecar == Reset \/ Step \/ OnStep
SpecSidecar == InitSidecar /\ [][NextSidecar]_vars

\* The weight refresh beside the trainer: a LuxEnvironment with all three
\* policies registered, before its first episode; the initial policy, the
\* cadence and whether the learning agent holds a model vary. The callers
\* are model_update, switch_opponent_policy, which changes the opponent the
\* next refresh writes to, and the trainer's updates of the learning
\* agent's model.
InitRefresh ==
  /\ Init
  /\ CallbackIdle
  /\ cls = "LuxEnvironment"
  /\ Len(opponent_agents) = 3
  /\ agent_type = "LEARNING"
  /\ configs = << <<"u1", None, "0", TRUE>> >>
  /\ replay_folder = None
NextRefresh == ModelUpdate \/ Train \/ SwitchOpponentPolicy
SpecRefresh == InitRefresh /\ [][NextRefresh]_vars

\* ================================================================== claims
HasCall(r, fn) == \E i \in 1..Len(r.calls) : r.calls[i].fn = fn
TheCall(r, fn) == r.calls[CHOOSE i \in 1..Len(r.calls) : r.calls[i].fn = fn]
\* the signal the Turn Driver gave on the resume of the last call
Signal(r) == TheCall(r, "next").out[1]
\* the last call was a step that got as far as resuming the Turn Driver
StepResumed == ret.op = "step" /\ HasCall(ret, "next")
TerminalSignals == {"StopIteration", "GameStepFailedException"}
\* the policy whose range of [0,1) the draw p falls in
DrawnPolicy(p) ==
  IF p < CutImitation THEN "imitation" ELSE IF p < CutRandom THEN "random" ELSE "self-play"

\* C1: every step that resumes the Turn Driver returns to its caller, with
\* done = true exactly when the Turn Driver signalled ordinary completion or
\* step failure on that call.
C1_DoneExactlyOnTerminalSignal ==
  StepResumed =>
    /\ ret.kind = "return"
    /\ ret.value[3] <=> Signal(ret) \in TerminalSignals

\* C2: a step on which the Turn Driver signals step failure returns done =
\* true, observation = None and the reward get_reward gives for
\* is_game_over = true, is_game_error = true: the losing reward.
C2_StepFailureReturnsLosingReward ==
  (StepResumed /\ Signal(ret) = "GameStepFailedException") =>
    /\ ret.kind = "return"
    /\ ret.value = <<NoneObj, "losing_reward", TRUE>>
    /\ TheCall(ret, "get_reward").args[1] = TRUE
    /\ TheCall(ret, "get_reward").args[3] = TRUE

\* C3: a step on which the Turn Driver signals ordinary completion returns
\* done = true and observation = None, the reward computed with
\* is_game_over = true and is_game_error = false.
C3_CompletionReturnsDone ==
  (StepResumed /\ Signal(ret) = "StopIteration") =>
    /\ ret.kind = "return"
    /\ ret.value[1] = NoneObj
    /\ ret.value[3] = TRUE
    /\ TheCall(ret, "get_reward").args[1] = TRUE
    /\ TheCall(ret, "get_reward").args[3] = FALSE
    /\ ret.value[2] = TheCall(ret, "get_reward").out[1]

\* C4: a step on which the Turn Driver yields a decision point builds the
\* observation from it, caches it as the last decision point, computes the
\* reward with is_game_over = false and the decision point's is_new_turn,
\* and returns done = false.
C4_YieldReturnsObservation ==
  (StepResumed /\ Signal(ret) = "yield") =>
    LET dp == TheCall(ret, "next").out[2] IN
    /\ HasCall(ret, "get_observation")
    /\ TheCall(ret, "get_observation").args = dp
    /\ last_observation_object = dp
    /\ TheCall(ret, "get_reward").args[1] = FALSE
    /\ TheCall(ret, "get_reward").args[2] = dp[4]
    /\ ret.kind = "return"
    /\ ret.value[1] = TheCall(ret, "get_observation").out
    /\ ret.value[3] = FALSE

\* the call that led to the next state began by handing take_action the
\* actor and team of the decision point the caller holds, and resumed the
\* Turn Driver after it
ActsOnHandedOutThenResumes ==
  /\ handed_out # NoneObj
  /\ Len(ret'.calls) >= 2
  /\ ret'.calls[1].fn = "take_action"
  /\ << ret'.calls[1].args[2], ret'.calls[1].args[3], ret'.calls[1].args[4] >>
       = << handed_out[1], handed_out[2], handed_out[3] >>
  /\ ret'.calls[2].fn = "next"

\* C5: a step made after a reset or step that handed a decision point to the
\* caller applies its action to the actor and team of that decision point,
\* and applies it before it resumes the Turn Driver.
\* (Step /\ handed_out # NoneObj) => ActsOnHandedOutThenResumes, written with
\* the cheap disjunct first.
C5_ActionAppliedToHandedOutDecisionPoint ==
  [][ ActsOnHandedOutThenResumes \/ ~(handed_out # NoneObj /\ Step) ]_vars

\* a second step of an episode acted on the decision point the first step
\* returned, which is not the one reset returned
C5_Witness ==
  /\ ret.op = "step"
  /\ current_step = 2
  /\ Len(configs) = 2
  /\ configs[1] # configs[2]
  /\ << ret.calls[1].args[2], ret.calls[1].args[3], ret.calls[1].args[4] >>
       = << configs[2][1], configs[2][2], configs[2][3] >>

\* C6 as stated: after a reset that returns, first or second in a row, the
\* counters are zero and the cached decision point is the first one of the
\* new episode.
C6_CountersReturnToZero ==
  (ret.op = "reset" /\ ret.kind = "return") =>
    /\ current_step = 0
    /\ total_env_step = 0
    /\ last_observation_object = configs[1]

\* C6 amended: a reset that returns leaves the per-episode counter at zero,
\* the cached decision point at the first one of the new episode and the
\* Turn Driver just past it, and leaves the cumulative step count and the
\* switch count as they were; made right after a reset that returned, it
\* changes nothing at all.
C6_ResetIsFreshAndIdempotent ==
  [][ (Reset /\ ret'.kind = "return") =>
        /\ current_step' = 0
        /\ last_observation_object' = configs[1]
        /\ match_generator' = [started |-> TRUE, pos |-> 1, finished |-> FALSE]
        /\ total_env_step' = total_env_step
        /\ num_switch' = num_switch
        /\ (ret.op = "reset" /\ ret.kind = "return") => UNCHANGED vars ]_vars

\* a reset returned after steps had been taken in an earlier episode
C6_Witness ==
  /\ ret.op = "reset"
  /\ ret.kind = "return"
  /\ total_env_step >= 2
  /\ current_step = 0
  /\ last_observation_object = configs[1]

\* C7: switch_opponent_policy never raises: it completes and the policy it
\* selects is a key of the registry.
C7_SwitchNeverRaises ==
  ret.op = "switch_opponent_policy" =>
    /\ ret.kind = "return"
    /\ TheCall(ret, "switch_opponent_policy").out[1] = None
    /\ opponent_policy \in keys(opponent_agents)

\* C8: the active policy name is a key of the registry and the active
\* opponent agent is the registry's entry for it.
C8_ActivePolicyInRegistry ==
  cls = "LuxEnvironment" =>
    /\ opponent_policy \in keys(opponent_agents)
    /\ opponent_agent = getitem(opponent_agents, opponent_policy)

\* a switch has just replaced the active policy by another one
C8_Witness ==
  /\ HasCall(ret, "switch_opponent_policy")
  /\ LET c == TheCall(ret, "switch_opponent_policy") IN
       /\ c.out[1] = None
       /\ c.args[2] # c.out[2]
       /\ opponent_policy = c.out[2]
       /\ opponent_agent # c.args[3]

\* C9: with a cadence configured, a step draws and recomputes the active
\* policy exactly when the cumulative step count it leaves is a multiple of
\* the cadence, and on such a step the active agent changes if and only if
\* the drawn policy differs from the one active before.
C9_SwitchExactlyOnCadence ==
  (StepResumed /\ cls = "LuxEnvironment" /\ model_update_step_freq # 0) =>
    LET due == total_env_step % model_update_step_freq = 0 IN
    /\ due <=> HasCall(ret, "switch_opponent_policy")
    /\ due => LET c == TheCall(ret, "switch_opponent_policy") IN
              (c.out[3] # c.args[3]) <=> (DrawnPolicy(c.args[1]) # c.args[2])

\* C10: with two inference-mode agents and a game of 2 decision points,
\* run_no_learn, no game step failing, returns false and leaves
\* current_step at 2.
C10_RunNoLearnTwoDecisionPoints ==
  ( /\ ret.op = "run_no_learn"
    /\ agent_type = "AGENT"
    /\ Len(configs) = 2
    /\ HasCall(ret, "next")
    /\ Signal(ret) # "GameStepFailedException" ) =>
    /\ ret.kind = "return"
    /\ ret.value = <<FALSE>>
    /\ current_step = 2

\* run_no_learn got as far as resuming the Turn Driver
RunNoLearnResumed == ret.op = "run_no_learn" /\ HasCall(ret, "next")

\* C11: run_no_learn returns a boolean, true exactly when the run ended by
\* step failure, whatever the Turn Driver does on its first resume: yield a
\* decision point, complete, or fail.
C11_RunNoLearnReturnsBoolean ==
  RunNoLearnResumed =>
    /\ ret.kind = "return"
    /\ ret.value \in {<<TRUE>>, <<FALSE>>}
    /\ ret.value[1] <=> Signal(ret) = "GameStepFailedException"

\* an agent seated in the match controller is in learning mode
SeatedInLearningMode ==
  agent_type = "LEARNING" /\ \E i \in 1..Len(mc_agents) : mc_agents[i] = "learner"

\* C12: a run_no_learn call made while a seated agent is in learning mode
\* fails its assertion and does nothing else: the episode counter, the cached
\* decision point, the game and the Turn Driver sequence are as before, and
\* neither the match controller nor the Turn Driver was called.
C12_AssertionBeforeAnyChange ==
  [][ (ret'.op = "run_no_learn" /\ SeatedInLearningMode) =>
        /\ ret' = Raises("run_no_learn", "AssertionError", << >>)
        /\ UNCHANGED << current_step, last_observation_object, configs,
                        match_generator >> ]_vars

\* the assertion failed in the middle of an episode, whose counter, cached
\* decision point and Turn Driver sequence are still there
C12_Witness ==
  /\ ret.op = "run_no_learn"
  /\ ret.exc = "AssertionError"
  /\ current_step = 2
  /\ last_observation_object # NoneObj
  /\ match_generator.pos = 2

\* C15: a reset whose first resume of the Turn Driver completes or signals
\* step failure ends with that signal as an exception to its caller: it
\* returns no observation, and neither builds an observation nor computes a
\* reward.
C15_ResetPropagatesFirstResumeFailure ==
  (ret.op = "reset" /\ Signal(ret) \in TerminalSignals) =>
    /\ ret.kind = "raise"
    /\ ret.exc = Signal(ret)
    /\ ret.value = << >>
    /\ ~HasCall(ret, "get_observation")
    /\ ~HasCall(ret, "get_reward")

\* a reset made after steps of an earlier episode failed on its first resume
C15_Witness ==
  /\ ret.op = "reset"
  /\ ret.exc = "GameStepFailedException"
  /\ total_env_step >= 1

\* C18: a step call made with a decision point cached, terminal or not,
\* adds exactly 1 to the per-episode count and to the cumulative count (a
\* step call made with none cached raises TypeError at take_action and
\* leaves both); reset sets the per-episode count to 0 and leaves the
\* cumulative count; the cumulative count never decreases and is at least
\* the per-episode count in every reachable state.
C18_CountersAdvanceByOne ==
  /\ [](total_env_step >= current_step)
  /\ [][ /\ total_env_step' >= total_env_step
         /\ (ret'.op = "step" /\ last_observation_object # NoneObj) =>
               /\ current_step' = current_step + 1
               /\ total_env_step' = total_env_step + 1
         /\ (ret'.op = "step" /\ last_observation_object = NoneObj) =>
               /\ ret'.exc = "TypeError"
               /\ UNCHANGED << current_step, total_env_step >>
         /\ ret'.op = "reset" =>
               /\ current_step' = 0
               /\ total_env_step' = total_env_step ]_vars

\* the third episode in a row ended on its first step
C18_Witness ==
  /\ StepResumed
  /\ Signal(ret) \in TerminalSignals
  /\ ret.kind = "return"
  /\ ret.value[3] = TRUE
  /\ current_step = 1
  /\ total_env_step = 3

\* the call recorded in r was a step that returned done = true
ReturnedDone(r) == r.op = "step" /\ r.kind = "return" /\ r.value[3] = TRUE

\* C19: a step call made right after a step call that returned done = true
\* returns done = true with a null observation and leaves the cached
\* decision point as it was, and if the earlier step computed its reward
\* with is_game_error = true, so does this one.
C19_DoneStepsRepeatTerminalOutcome ==
  [][ (ReturnedDone(ret) /\ ret'.op = "step") =>
        /\ ReturnedDone(ret')
        /\ ret'.value[1] = NoneObj
        /\ last_observation_object' = last_observation_object
        /\ TheCall(ret, "get_reward").args[3] =>
              TheCall(ret', "get_reward").args[3] ]_vars

\* C17: after a policy switch that completed, the opponent seated in the
\* match controller, the one the Turn Driver asks for decisions, is the
\* registry's entry for the active policy name.
C17_SeatedOpponentIsActiveAgent ==
  ( /\ HasCall(ret, "switch_opponent_policy")
    /\ TheCall(ret, "switch_opponent_policy").out[1] = None ) =>
    /\ mc_agents[2] = getitem(opponent_agents, opponent_policy)
    /\ mc_agents[2] = opponent_agent

\* the adapter call fn of the last call raised AdapterFault
AdapterRaised(fn) == HasCall(ret, fn) /\ TheCall(ret, fn).out = Raised(AdapterFault)

\* C16: a step during which get_observation or get_reward raises a fault
\* that is neither of the Turn Driver's two signals ends with that fault as
\* an exception to its caller, nothing of the step running after the call
\* that raised (when it is get_observation, no reward is computed and the
\* cached decision point is still the one the action was applied to); and a step that returns done = true got one of the two
\* signals from the Turn Driver.
C16_AdapterFaultPropagates ==
  /\ (ret.op = "step" /\ (AdapterRaised("get_observation") \/ AdapterRaised("get_reward"))) =>
        /\ ret.kind = "raise"
        /\ ret.exc = AdapterFault
        /\ ret.calls[Len(ret.calls)].out = Raised(AdapterFault)
  /\ (ret.op = "step" /\ AdapterRaised("get_observation")) =>
        /\ ~HasCall(ret, "get_reward")
        /\ take_action_target(last_observation_object)
             = << ret.calls[1].args[2], ret.calls[1].args[3], ret.calls[1].args[4] >>
  /\ ReturnedDone(ret) => Signal(ret) \in TerminalSignals

\* get_observation raised on the second decision point of an episode, which
\* is not the one the action was applied to
C16_Witness ==
  /\ ret.op = "step"
  /\ ret.exc = AdapterFault
  /\ AdapterRaised("get_observation")
  /\ TheCall(ret, "next").out[2] # last_observation_object

\* where the call of fn stands among the calls of r
CallIndex(r, fn) == CHOOSE i \in 1..Len(r.calls) : r.calls[i].fn = fn

\* C20: on a step on which the cadence is due, model_update is called
\* exactly when the policy active before the step's switch is "self-play",
\* and is called before switch_opponent_policy; and when such a step returns
\* with "self-play" active, the active opponent's model is a copy of the
\* learning agent's model.
C20_RefreshBeforeSwitch ==
  ( /\ StepResumed
    /\ cls = "LuxEnvironment"
    /\ cadence_due(model_update_step_freq, total_env_step) ) =>
    /\ HasCall(ret, "switch_opponent_policy")
    /\ HasCall(ret, "model_update")
         <=> TheCall(ret, "switch_opponent_policy").args[2] = "self-play"
    /\ HasCall(ret, "model_update")
         => CallIndex(ret, "model_update") < CallIndex(ret, "switch_opponent_policy")
    /\ (ret.kind = "return" /\ opponent_policy = "self-play")
         => opponent_model[opponent_agent] = deepcopy(learning_model)

\* the prior-observation argument of the get_observation call of the last call
PriorArgument == TheCall(ret, "get_observation").args[5]

\* C14: in the StackObsWrapper the rolling last observation is cleared by
\* reset and repopulated from there: the prior-observation argument of the
\* get_observation call that builds the first observation of an episode is
\* None, and the one of the first step of an episode is None or the
\* observation reset built, never an observation of an earlier episode.
C14_LastUnitObsClearedOnReset ==
  (cls = Stacked /\ HasCall(ret, "get_observation")) =>
    /\ ret.op = "reset" =>
         /\ PriorArgument = NoneObj
         /\ last_unit_obs = NoneObj
    /\ (ret.op = "step" /\ current_step = 1) =>
         PriorArgument \in {NoneObj, get_observation(configs[1][1], configs[1][2],
                                                    configs[1][3], configs[1][4])}

IsReplayReset(c) == c.fn = "replay_env.reset"
\* the replay episodes the last call ran, in the order it ran them
ReplayResets == SelectSeq(ret.calls, IsReplayReset)

\* C13: a call of the callback on which the save cadence is due saves the
\* model and then resets the replay environment once for each of the seeds
\* 0 .. replay_num_episodes - 1, in that order, however each episode ends
\* (a decision point, ordinary completion, step failure, another fault);
\* every call of the callback returns True and none raises; and no call of
\* the callback changes a counter, the Turn Driver sequence or the cached
\* decision point of the training environment.
C13_SidecarCompletesEveryReplay ==
  /\ [](ret.op = "_on_step" =>
          /\ ret.kind = "return"
          /\ ret.value = <<TRUE>>
          /\ IF n_calls % save_freq = 0
               THEN /\ ret.calls[1].fn = "model.save"
                    /\ Len(ReplayResets) = replay_num_episodes
                    /\ \A i \in 1..Len(ReplayResets) : ReplayResets[i].args = <<i - 1>>
                    /\ replay_env.seed = replay_num_episodes - 1
               ELSE ret.calls = << >>)
  /\ [][ ret'.op = "_on_step" =>
           UNCHANGED << current_step, total_env_step, num_switch, match_generator,
                        last_observation_object >> ]_vars

\* during training, the second of three replay episodes ended in a fault
\* that is neither of the two signals, and the third one ran
C13_Witness ==
  /\ ret.op = "_on_step"
  /\ total_env_step >= 1
  /\ Len(ReplayResets) = 3
  /\ ReplayResets[2].out = <<AdapterFault>>
  /\ ReplayResets[3].out = <<"GameStepFailedException">>

\* C21: a model_update made while the learning agent holds a model leaves
\* the active opponent with a copy of that model, a different object with
\* the same content, and the other opponents as they were; an update of the
\* learning agent's model by the trainer changes no opponent's model; a
\* model_update made while the learning agent holds no model changes no
\* opponent's model and, called directly, returns; and no opponent ever
\* holds the learning agent's model object itself.
C21_RefreshIsIndependentCopy ==
  /\ [](\A a \in OpponentObjects : opponent_model[a].id # "learner")
  /\ [][ IF learning_model' # learning_model
           THEN opponent_model' = opponent_model
           ELSE HasCall(ret', "model_update") =>
                  LET agent == TheCall(ret', "model_update").args[1] IN
                  /\ agent = opponent_agent
                  /\ IF learning_model = NoModel
                       THEN /\ opponent_model' = opponent_model
                            /\ ret'.op = "model_update" => ret'.kind = "return"
                       ELSE opponent_model' =
                              [opponent_model EXCEPT ![agent] = deepcopy(learning_model)]
        ]_vars

\* the learning agent's model was updated after a refresh: the self-play
\* opponent still holds the content copied, the learning agent a later one
C21_Witness ==
  /\ HasCall(ret, "model_update")
  /\ opponent_model[TheCall(ret, "model_update").args[1]] = [id |-> "copy", v |-> 1]
  /\ learning_model.v = 2

====
